---- MODULE Spec2Model ----
(***************************************************************************)
(* NotificationDropdown.tsx: the notification feed held by the component   *)
(* (notifications, unreadCount, loading, isOpen), the auth-gated fetch,    *)
(* the 30 second polling interval, the two mark-as-read handlers, and the  *)
(* requests to NotificationService that are in flight.                      *)
(*                                                                         *)
(* A step of the model is one handler run to its next await (or to its     *)
(* end) together with the re-render and the effects React runs for it.     *)
(* Every function of the component is a closure over the render that       *)
(* created it: a request in flight keeps the authLoading/isAuthenticated   *)
(* its handler saw, and so does an interval callback.                      *)
(***************************************************************************)
EXTENDS Integers, Sequences, FiniteSets

VARIABLES
  life,             \* the component instance: "new", "mounted", "unmounted"
  authLoading,      \* useAuth().loading
  isAuthenticated,  \* useAuth().isAuthenticated
  isOpen,           \* useState(false)
  notifications,    \* useState<Notification[]>([])
  unreadCount,      \* useState(0)
  loading,          \* useState(false): the mark-all busy flag
  timers,           \* the live setInterval timers, each with its closure
  interval,         \* the handle the polling effect's cleanup will clear
  inflight,         \* requests awaiting settlement, in order of issue
  srvRead,          \* the service: ids it has recorded as read
  last              \* history: the handler that ran last

vars == <<life, authLoading, isAuthenticated, isOpen, notifications,
          unreadCount, loading, timers, interval, inflight, srvRead,
          last>>

feed == <<notifications, unreadCount>>
ui == <<isOpen, notifications, unreadCount, loading>>
auth == <<authLoading, isAuthenticated>>
srv == srvRead

\* ---------------------------------------------------------------- bounds
NumIds == 2
MaxInFlight == 2

Ids == 1..NumIds

\* ------------------------------------------------------- the service side
\* The service holds the notifications Ids, all unread at first, and never
\* turns a read one unread again.
\* The page getNotifications returns: every id, in the service's order.
Page(read) ==
  [i \in 1..NumIds |-> [id |-> i, read |-> (i \in read), actionUrl |-> (i % 2 = 1)]]

Payload(read) ==
  [notifications |-> Page(read), unreadCount |-> Cardinality(Ids \ read)]

NoData == [notifications |-> <<>>, unreadCount |-> 0]

\* ------------------------------------------------------------- helpers
mounted == life = "mounted"

Active(al, ia) == ~al /\ ia

RemoveAt(q, i) == SubSeq(q, 1, i - 1) \o SubSeq(q, i + 1, Len(q))

Max(a, b) == IF a >= b THEN a ELSE b

Room == Len(inflight) < MaxInFlight

\* A request as it leaves the component.  al/ia are the auth values of the
\* render whose closure issued it (kept where the handler reads them again
\* after its await); awaited marks the getNotifications call that
\* handleMarkAllAsRead awaits.  data is what the service will answer: it
\* reads its records when a getNotifications request is issued, and the
\* answer reaches the component later; a mark request takes effect at the
\* service when it resolves.
Request(kind, id, awaited, al, ia, data) ==
  [kind |-> kind, id |-> id, awaited |-> awaited, al |-> al, ia |-> ia,
   data |-> data]

\* fetchNotifications of the render with auth values (al, ia), up to its await.
fetchNotifications(al, ia, awaited, data, q) ==
  IF al THEN q
  ELSE IF ~ia THEN q
  ELSE Append(q, Request("get", 0, awaited, al, ia, data))

\* useEffect(..., [authLoading, isAuthenticated]): fetch on mount and on auth change.
FetchEffect(al, ia, data, q) ==
  IF ~al THEN fetchNotifications(al, ia, FALSE, data, q) ELSE q

NewHandle(ts) == CHOOSE h \in 1..(Cardinality(ts) + 1) : \A t \in ts : t.h # h

\* The polling effect's body: the timers after it ran, and the handle its
\* cleanup keeps (0: it returned no cleanup).
PollingEffect(al, ia, ts) ==
  IF al \/ ~ia THEN [timers |-> ts, interval |-> 0]
  ELSE [timers |-> ts \cup {[h |-> NewHandle(ts), al |-> al, ia |-> ia]},
        interval |-> NewHandle(ts)]

\* Mutant: the effect returns no cleanup, so the interval is never cleared.
PollingCleanupLeak(ts, h) == ts

\* The polling effect's cleanup: clearInterval(interval).
PollingCleanup(ts, h) == {t \in ts : t.h # h}

\* ---------------------------------------------------------------- Init
\* Before the first render: useState defaults, no timer, nothing in flight.
Init ==
  /\ life = "new"
  /\ authLoading \in BOOLEAN
  /\ isAuthenticated \in BOOLEAN
  /\ isOpen = FALSE
  /\ notifications = <<>>
  /\ unreadCount = 0
  /\ loading = FALSE
  /\ timers = {}
  /\ interval = 0
  /\ inflight = <<>>
  /\ srvRead = {}
  /\ last = "Init"

\* ------------------------------------------------------------- lifecycle
\* First render and its two effects.
Mount ==
  /\ life = "new"
  /\ life' = "mounted"
  /\ inflight' = FetchEffect(authLoading, isAuthenticated, Payload(srvRead), inflight)
  /\ LET p == PollingEffect(authLoading, isAuthenticated, timers)
     IN timers' = p.timers /\ interval' = p.interval
  /\ last' = "Mount"
  /\ UNCHANGED <<auth, ui, srv>>

\* Teardown: the polling effect's cleanup runs and the state is discarded;
\* setState calls of handlers still pending do nothing from here on.
Unmount ==
  /\ mounted
  /\ life' = "unmounted"
  /\ timers' = PollingCleanup(timers, interval)
  /\ interval' = 0
  /\ isOpen' = FALSE /\ notifications' = <<>> /\ unreadCount' = 0 /\ loading' = FALSE
  /\ last' = "Unmount"
  /\ UNCHANGED <<auth, inflight, srv>>

\* useAuth() yields new values: re-render, cleanup of the polling effect,
\* then both effects with the new values.
AuthChange(al, ia) ==
  /\ mounted
  /\ <<al, ia>> # <<authLoading, isAuthenticated>>
  /\ Room
  /\ authLoading' = al
  /\ isAuthenticated' = ia
  /\ inflight' = FetchEffect(al, ia, Payload(srvRead), inflight)
  /\ LET p == PollingEffect(al, ia, PollingCleanup(timers, interval))
     IN timers' = p.timers /\ interval' = p.interval
  /\ last' = "AuthChange"
  /\ UNCHANGED <<life, ui, srv>>

\* The interval callback of timer t: fetchNotifications of the render that
\* created the interval.
Tick(t) ==
  /\ t \in timers
  /\ Room
  /\ inflight' = fetchNotifications(t.al, t.ia, FALSE, Payload(srvRead), inflight)
  /\ last' = "Tick"
  /\ UNCHANGED <<life, auth, ui, timers, interval, srv>>

\* ------------------------------------------------------------- UI events
\* Mutant: the refresh runs when the dropdown closes instead of when it opens.
toggleDropdownFetchOnClose ==
  /\ mounted
  /\ Room
  /\ isOpen' = ~isOpen
  /\ inflight' = IF isOpen
                 THEN fetchNotifications(authLoading, isAuthenticated, FALSE,
                         Payload(srvRead), inflight)
                 ELSE inflight
  /\ last' = "toggleDropdown"
  /\ UNCHANGED <<life, auth, notifications, unreadCount, loading, timers, interval, srv>>

toggleDropdown ==
  /\ mounted
  /\ Room
  /\ isOpen' = ~isOpen
  /\ inflight' = IF ~isOpen
                 THEN fetchNotifications(authLoading, isAuthenticated, FALSE,
                         Payload(srvRead), inflight)
                 ELSE inflight
  /\ last' = "toggleDropdown"
  /\ UNCHANGED <<life, auth, notifications, unreadCount, loading, timers, interval, srv>>

closeDropdown ==
  /\ mounted
  /\ isOpen
  /\ isOpen' = FALSE
  /\ last' = "closeDropdown"
  /\ UNCHANGED <<life, auth, notifications, unreadCount, loading, timers, interval,
                 inflight, srv>>

\* Click on the mark-all button (rendered when unreadCount > 0, disabled
\* while loading): handleMarkAllAsRead up to its first await.
handleMarkAllAsRead ==
  /\ mounted
  /\ isOpen
  /\ unreadCount > 0
  /\ ~loading
  /\ Room
  /\ loading' = TRUE
  /\ inflight' = Append(inflight,
        Request("markAll", 0, FALSE, authLoading, isAuthenticated, NoData))
  /\ last' = "handleMarkAllAsRead"
  /\ UNCHANGED <<life, auth, isOpen, notifications, unreadCount, timers, interval, srv>>

\* handleMarkAsRead(id) up to its await; it reads no auth value.
handleMarkAsRead(id, q) ==
  Append(q, Request("markOne", id, FALSE, FALSE, FALSE, NoData))

\* Click on the k-th item of the list.
onItemClick(k) ==
  /\ mounted
  /\ isOpen
  /\ k \in 1..Len(notifications)
  /\ Room
  /\ inflight' = IF ~notifications[k].read
                 THEN handleMarkAsRead(notifications[k].id, inflight)
                 ELSE inflight
  /\ isOpen' = IF notifications[k].actionUrl THEN FALSE ELSE isOpen
  /\ last' = "onItemClick"
  /\ UNCHANGED <<life, auth, notifications, unreadCount, loading, timers, interval, srv>>

\* ------------------------------------------------- continuations of awaits
\* The local update of handleMarkAsRead.
MarkLocal(ns, id) ==
  [k \in 1..Len(ns) |-> IF ns[k].id = id THEN [ns[k] EXCEPT !.read = TRUE] ELSE ns[k]]

\* Mutant: the decrement without Math.max.
DecrementNoFloor(n) == n - 1

Decrement(n) == Max(0, n - 1)

\* Request i resolves while a getNotifications request issued before it is
\* still pending.
OutOfOrder(q, i) == \E j \in 1..(i - 1) : q[j].kind = "get"

\* Mutant: setUnreadCount is forgotten.
FetchResolvedKeepsCount(i) ==
  /\ i \in 1..Len(inflight)
  /\ inflight[i].kind = "get"
  /\ LET r == inflight[i] IN
     /\ inflight' = RemoveAt(inflight, i)
     /\ IF mounted
        THEN /\ notifications' = r.data.notifications
             /\ loading' = IF r.awaited THEN FALSE ELSE loading
        ELSE UNCHANGED <<notifications, loading>>
     /\ last' = IF OutOfOrder(inflight, i) THEN "FetchResolvedOutOfOrder" ELSE "FetchResolved"
  /\ UNCHANGED <<life, auth, isOpen, unreadCount, timers, interval, srv>>

\* getNotifications resolved: the two setState calls of fetchNotifications;
\* when handleMarkAllAsRead awaited it, its finally block follows.
FetchResolved(i) ==
  /\ i \in 1..Len(inflight)
  /\ inflight[i].kind = "get"
  /\ LET r == inflight[i] IN
     /\ inflight' = RemoveAt(inflight, i)
     /\ IF mounted
        THEN /\ notifications' = r.data.notifications
             /\ unreadCount' = r.data.unreadCount
             /\ loading' = IF r.awaited THEN FALSE ELSE loading
        ELSE UNCHANGED <<notifications, unreadCount, loading>>
     /\ last' = IF OutOfOrder(inflight, i) THEN "FetchResolvedOutOfOrder" ELSE "FetchResolved"
  /\ UNCHANGED <<life, auth, isOpen, timers, interval, srv>>

\* Mutant: the catch block empties the feed.
FetchRejectedClears(i) ==
  /\ i \in 1..Len(inflight)
  /\ inflight[i].kind = "get"
  /\ inflight' = RemoveAt(inflight, i)
  /\ loading' = IF inflight[i].awaited /\ mounted THEN FALSE ELSE loading
  /\ notifications' = <<>>
  /\ unreadCount' = 0
  /\ last' = "FetchRejected"
  /\ UNCHANGED <<life, auth, isOpen, timers, interval, srv>>

\* getNotifications rejected (network or auth error, whether or not the
\* service had answered): the empty catch of fetchNotifications.
FetchRejected(i) ==
  /\ i \in 1..Len(inflight)
  /\ inflight[i].kind = "get"
  /\ inflight' = RemoveAt(inflight, i)
  /\ loading' = IF inflight[i].awaited /\ mounted THEN FALSE ELSE loading
  /\ last' = "FetchRejected"
  /\ UNCHANGED <<life, auth, isOpen, notifications, unreadCount, timers, interval, srv>>

\* markAllAsRead resolved (the service has marked everything read): handleMarkAllAsRead goes on to await
\* fetchNotifications() of its own render; when that returns without a
\* request the finally block runs at once.
MarkAllResolved(i) ==
  /\ i \in 1..Len(inflight)
  /\ inflight[i].kind = "markAll"
  /\ LET r == inflight[i]
         q == RemoveAt(inflight, i)
         q2 == fetchNotifications(r.al, r.ia, TRUE, Payload(Ids), q)
     IN /\ inflight' = q2
        /\ loading' = IF q2 = q /\ mounted THEN FALSE ELSE loading
  /\ srvRead' = Ids
  /\ last' = "MarkAllResolved"
  /\ UNCHANGED <<life, auth, isOpen, notifications, unreadCount, timers, interval>>

\* Mutant: setLoading(false) sits in the try block, not in finally.
MarkAllRejectedNoFinally(i) ==
  /\ i \in 1..Len(inflight)
  /\ inflight[i].kind = "markAll"
  /\ inflight' = RemoveAt(inflight, i)
  /\ last' = "MarkAllRejected"
  /\ UNCHANGED <<life, auth, ui, timers, interval, srv>>

\* markAllAsRead rejected: catch, then finally.
MarkAllRejected(i) ==
  /\ i \in 1..Len(inflight)
  /\ inflight[i].kind = "markAll"
  /\ inflight' = RemoveAt(inflight, i)
  /\ loading' = FALSE
  /\ last' = "MarkAllRejected"
  /\ UNCHANGED <<life, auth, isOpen, notifications, unreadCount, timers, interval, srv>>

\* markAsRead resolved (the service has marked the item read): the local update.
MarkAsReadResolved(i) ==
  /\ i \in 1..Len(inflight)
  /\ inflight[i].kind = "markOne"
  /\ inflight' = RemoveAt(inflight, i)
  /\ IF mounted
     THEN /\ notifications' = MarkLocal(notifications, inflight[i].id)
          /\ unreadCount' = Decrement(unreadCount)
     ELSE UNCHANGED <<notifications, unreadCount>>
  /\ srvRead' = srvRead \cup {inflight[i].id}
  /\ last' = "MarkAsReadResolved"
  /\ UNCHANGED <<life, auth, isOpen, loading, timers, interval>>

\* markAsRead rejected: the catch logs.
MarkAsReadRejected(i) ==
  /\ i \in 1..Len(inflight)
  /\ inflight[i].kind = "markOne"
  /\ inflight' = RemoveAt(inflight, i)
  /\ last' = "MarkAsReadRejected"
  /\ UNCHANGED <<life, auth, ui, timers, interval, srv>>

\* ---------------------------------------------------------------- Next
Next ==
  \/ Mount
  \/ Unmount
  \/ \E al \in BOOLEAN, ia \in BOOLEAN : AuthChange(al, ia)
  \/ \E t \in timers : Tick(t)
  \/ toggleDropdown
  \/ closeDropdown
  \/ handleMarkAllAsRead
  \/ \E k \in 1..NumIds : onItemClick(k)
  \/ \E i \in 1..MaxInFlight : FetchResolved(i)
  \/ \E i \in 1..MaxInFlight : FetchRejected(i)
  \/ \E i \in 1..MaxInFlight : MarkAllResolved(i)
  \/ \E i \in 1..MaxInFlight : MarkAllRejected(i)
  \/ \E i \in 1..MaxInFlight : MarkAsReadResolved(i)
  \/ \E i \in 1..MaxInFlight : MarkAsReadRejected(i)

Spec == Init /\ [][Next]_vars

\* Every pending promise settles: the mark-all request and the refresh that
\* handleMarkAllAsRead awaits are eventually resolved or rejected.
MarkAllSettles == \E i \in 1..MaxInFlight : MarkAllResolved(i) \/ MarkAllRejected(i)

AwaitedFetchSettles ==
  \E i \in 1..MaxInFlight :
    /\ i <= Len(inflight)
    /\ inflight[i].awaited
    /\ (FetchResolved(i) \/ FetchRejected(i))

FairSpec == Spec /\ WF_vars(MarkAllSettles) /\ WF_vars(AwaitedFetchSettles)

\* ------------------------------------------------------------ properties
IsActive == mounted /\ Active(authLoading, isAuthenticated)

Gets(q) == {i \in 1..Len(q) : q[i].kind = "get"}

Marks(q) == {i \in 1..Len(q) : q[i].kind \in {"markOne", "markAll"}}

\* q2 is q with one request of the given kind added at the end.
Issued(q, q2, kind) ==
  /\ Len(q2) = Len(q) + 1
  /\ SubSeq(q2, 1, Len(q)) = q
  /\ q2[Len(q2)].kind = kind

\* q2 is q without its i-th request.
Removed(q, q2, i) ==
  /\ i \in 1..Len(q)
  /\ Len(q2) = Len(q) - 1
  /\ \A j \in 1..Len(q2) : q2[j] = q[IF j < i THEN j ELSE j + 1]

ReadIn(ns, id) == \E k \in 1..Len(ns) : ns[k].id = id /\ ns[k].read

\* C1: a step that issues a getNotifications request is taken only with the
\* AuthGate {isInitializing: false, isAuthenticated: true} (the values the
\* step itself brings in, when it is the change of the AuthGate), whatever
\* invoked refresh.
C1_RefreshOnlyWhenActive ==
  [][Cardinality(Gets(inflight')) > Cardinality(Gets(inflight))
       => Active(authLoading', isAuthenticated')]_vars

\* The timers agree with the AuthGate, and the cleanup holds the handle of
\* the one timer there is.
C2_TimerInv ==
  /\ (timers # {}) <=> IsActive
  /\ Cardinality(timers) <= 1
  /\ \A t \in timers : t.h = interval /\ Active(t.al, t.ia)
  /\ timers = {} => interval = 0

\* C2: a polling timer exists exactly when the component is mounted and the
\* AuthGate is Active, there is never more than one (leaving Active and
\* unmounting cancel it, entering Active creates one), and a timer tick
\* issues a refresh only while mounted and Active.
C2_SingleTimer ==
  /\ []C2_TimerInv
  /\ [][last' = "Tick" /\ inflight' # inflight => IsActive /\ IsActive']_vars

\* The AuthGate has just left Active after a refresh was issued: no timer is left.
C2_Witness ==
  /\ last = "AuthChange"
  /\ mounted
  /\ ~Active(authLoading, isAuthenticated)
  /\ timers = {}
  /\ inflight # <<>>

\* What a resolved markAsRead request does to the feed.
C3_MarkReadStep ==
  (last' = "MarkAsReadResolved" /\ mounted) =>
    \E i \in 1..Len(inflight) :
      /\ inflight[i].kind = "markOne"
      /\ Removed(inflight, inflight', i)
      /\ Len(notifications') = Len(notifications)
      /\ \A k \in 1..Len(notifications) :
           IF notifications[k].id = inflight[i].id
           THEN /\ notifications'[k].read
                /\ notifications'[k].id = notifications[k].id
                /\ notifications'[k].actionUrl = notifications[k].actionUrl
           ELSE notifications'[k] = notifications[k]
      /\ unreadCount' = (IF unreadCount >= 1 THEN unreadCount - 1 ELSE 0)

\* C3: a successful markRead(id) sets read on the item with that id, leaves
\* every other item and the order alone, and lowers unreadCount by one,
\* not below zero; unreadCount is never negative.
C3_MarkRead == [](unreadCount >= 0) /\ [][C3_MarkReadStep]_vars

\* A markAsRead request has resolved: one item is read, another still unread.
C3_Witness ==
  /\ last = "MarkAsReadResolved"
  /\ mounted
  /\ \E k \in 1..Len(notifications) : notifications[k].read
  /\ \E k \in 1..Len(notifications) : ~notifications[k].read

\* C4: markRead(id) for an item that is already read leaves unreadCount
\* unchanged, so two markRead calls for one id lower it by at most one.
C4_MarkReadIdempotent ==
  [][(last' = "MarkAsReadResolved" /\ mounted) =>
       \A i \in 1..Len(inflight) :
         (/\ inflight[i].kind = "markOne"
          /\ Removed(inflight, inflight', i)
          /\ ReadIn(notifications, inflight[i].id))
         => unreadCount' = unreadCount]_vars

\* C5: a rejected getNotifications, markAsRead or markAllAsRead request
\* leaves notifications and unreadCount exactly as they were.
C5_FailureKeepsFeed ==
  [][last' \in {"FetchRejected", "MarkAsReadRejected", "MarkAllRejected"}
       => /\ notifications' = notifications
          /\ unreadCount' = unreadCount
          /\ Len(inflight') = Len(inflight) - 1]_vars

\* A getNotifications request was rejected while a feed was held.
C5_Witness ==
  /\ last = "FetchRejected"
  /\ mounted
  /\ notifications # <<>>
  /\ unreadCount > 0

\* C6: a step that issues a markAsRead or markAllAsRead request is taken
\* only with the AuthGate {isInitializing: false, isAuthenticated: true}.
C6_MarkOnlyWhenActive ==
  [][Cardinality(Marks(inflight')) > Cardinality(Marks(inflight))
       => Active(authLoading, isAuthenticated) /\ Active(authLoading', isAuthenticated')]_vars

\* C7: a resolved getNotifications overwrites notifications and unreadCount
\* with its own payload in one step, whether or not a request issued after
\* it has already resolved, and every other request stays in flight.
C7_LastSettledWins ==
  [][(last' \in {"FetchResolved", "FetchResolvedOutOfOrder"} /\ mounted) =>
       \E i \in 1..Len(inflight) :
         /\ inflight[i].kind = "get"
         /\ (last' = "FetchResolvedOutOfOrder") = (\E j \in Gets(inflight) : j < i)
         /\ Removed(inflight, inflight', i)
         /\ notifications' = inflight[i].data.notifications
         /\ unreadCount' = inflight[i].data.unreadCount]_vars

\* Of two requests in flight at once the one issued later has resolved
\* first and its payload is shown; the earlier one is still pending with an
\* older, different payload.
C7_Witness ==
  /\ last = "FetchResolvedOutOfOrder"
  /\ mounted
  /\ \E j \in Gets(inflight) :
       /\ inflight[j].data.notifications # notifications
       /\ inflight[j].data.unreadCount > unreadCount

\* A markAllRead call is in progress: its mark-all request, or the refresh
\* it awaits, is pending.
MarkAllInProgress ==
  \E i \in 1..Len(inflight) : inflight[i].kind = "markAll" \/ inflight[i].awaited

\* C8: the busy flag is set exactly while a markAllRead call is in progress
\* (so it is set before the mark-all request is issued and cleared when the
\* call finishes, however it finishes), and a set flag is always eventually
\* cleared.
C8_BusyFlag ==
  /\ [](loading <=> (mounted /\ MarkAllInProgress))
  /\ (loading ~> ~loading)

\* markAllRead has completed with its refresh skipped by the AuthGate.
C8_Witness ==
  /\ last = "MarkAllResolved"
  /\ mounted
  /\ ~loading
  /\ ~MarkAllInProgress

\* The dropdown opens: one request exactly when the AuthGate is Active.
C9_OpenStep ==
  (~isOpen /\ isOpen') =>
    IF Active(authLoading, isAuthenticated)
    THEN Issued(inflight, inflight', "get")
    ELSE inflight' = inflight

\* The dropdown closes: no getNotifications request is added.
C9_CloseStep ==
  (isOpen /\ ~isOpen') => Cardinality(Gets(inflight')) = Cardinality(Gets(inflight))

\* The mounted component becomes Active: one request, and the one timer is new.
C9_ActivateStep ==
  (~IsActive /\ IsActive') =>
    /\ Issued(inflight, inflight', "get")
    /\ timers = {}
    /\ Cardinality(timers') = 1

\* C9: opening the dropdown invokes refresh once (a request exactly when the
\* AuthGate is Active), closing it invokes none, and becoming Active
\* (mounting while Active included) issues one refresh in the step that
\* creates the timer, so before its first tick.
C9_RefreshTriggers == [][C9_OpenStep /\ C9_CloseStep /\ C9_ActivateStep]_vars

\* The dropdown was opened while Active with a request already pending.
C9_Witness ==
  /\ last = "toggleDropdown"
  /\ isOpen
  /\ Active(authLoading, isAuthenticated)
  /\ Len(inflight) = 2
  /\ inflight[2].kind = "get"

\* C10: once an item held by the component is read, no later step shows it
\* unread again.
C10_ReadIsMonotone ==
  [][\A k \in 1..Len(notifications) :
       notifications[k].read =>
         \A j \in 1..Len(notifications') :
           notifications'[j].id = notifications[k].id => notifications'[j].read]_vars

====
